---- MODULE Spec2Model ----
(***************************************************************************)
(* Model of the fantia plugin (src/fantia/fantia.py): the cursor-based     *)
(* paginator and fetch session of CreatorIterator, and the content         *)
(* normalizer of Fantia (_to_remote_posts, _content_to_post, download).    *)
(*                                                                         *)
(* Remote record ids are the positions 1..top of the creator's            *)
(* next/previous chain (1 the oldest, top the most recent post).  An       *)
(* original_id "123-45" is the sequence of its '-' separated parts,        *)
(* <<123, 45>>; the bare record id "123" is <<123>>.  Python's None is 0.  *)
(***************************************************************************)
EXTENDS Integers, Sequences, FiniteSets, TLC

\* ---------------------------------------------------------------- bounds
MaxPosts == 3          \* longest upstream chain
MaxLimit == 2          \* largest explicit limit n passed to fetch
MaxAborts == 1         \* transport errors per behaviour
MaxCalls == 2          \* single-record downloads per behaviour
MaxUrlLen == 3         \* longest url handed to parse_url, in tokens

None == 0              \* Python None (ids are >= 1)
NoLimit == -1          \* fetch(direction, n=None)

Directions == {"newer", "older"}
Limits == (0..MaxLimit) \cup {NoLimit}

\* ------------------------------------------------------ upstream documents
\* post.links.next / post.links.previous of record id in a chain of top records
LinksOf(id, top) ==
    [next |-> IF id < top THEN id + 1 ELSE None,
     previous |-> IF id > 1 THEN id - 1 ELSE None]

\* fanclub.recent_posts, most recent first
RecentPosts(top) == [i \in 1..top |-> top + 1 - i]

\* blog inserts: a literal string, a fantiaImage with an id, or another object
Text(c) == [kind |-> "text", v |-> c]
Image(i) == [kind |-> "image", v |-> i]
Other == [kind |-> "other", v |-> 0]

\* a content item of a record; upstream, a content id names one piece of content,
\* whose category and payload stay what they are: only its visibility and its
\* presence in post_contents change
Payload(id) ==
    CASE id = 1 -> [category |-> "file", photos |-> <<>>, ops |-> <<>>]
      [] id = 2 -> [category |-> "photo_gallery", photos |-> <<1, 2>>, ops |-> <<>>]
      [] id = 3 -> [category |-> "text", photos |-> <<>>, ops |-> <<>>]
      [] id = 4 -> [category |-> "blog", photos |-> <<>>,
                    ops |-> <<Text(1), Image(1), Other, Image(1)>>]
      [] OTHER -> [category |-> "product", photos |-> <<>>, ops |-> <<>>]

Item(id, visible) ==
    [id |-> id, category |-> Payload(id).category, visible_status |-> visible,
     photos |-> Payload(id).photos, ops |-> Payload(id).ops]

ContentIds == 1..5
Visibilities == {"visible", "hidden"}
RecordIds == 1..2

Items == { Item(i, v) : i \in ContentIds, v \in Visibilities }

\* the post_contents lists a download of record id is served: for record 1 any
\* list of at most two items in upstream order, for the others a file item
ContentLists(id) ==
    IF id = 1
    THEN {<<>>} \cup { <<a>> : a \in Items }
                \cup { p \in { <<a, b>> : a \in Items, b \in Items } : p[1].id < p[2].id }
    ELSE { <<>>, <<Item(1, "visible")>>, <<Item(1, "hidden")>> }

\* the preview arguments of the downloads of record id: record 1 is downloaded
\* in full, the others in either mode
PreviewModes(id) == IF id = 1 THEN {FALSE} ELSE BOOLEAN

\* the post_contents lists served when an existing post is refreshed
RefreshLists == {<<>>} \cup { <<a>> : a \in Items }

\* the post_contents of the records a fetch run is served: record 1 mod 3 holds a
\* file, record 2 mod 3 a hidden text and a gallery, record 0 mod 3 nothing
FeedContents(id) ==
    CASE id % 3 = 1 -> <<Item(1, "visible")>>
      [] id % 3 = 2 -> <<Item(3, "hidden"), Item(2, "visible")>>
      [] OTHER -> <<>>

\* the JSON document of GET /api/v1/posts/{id}
PostDoc(id, top, thumb, contents) ==
    [id |-> id, links |-> LinksOf(id, top), thumb |-> thumb, post_contents |-> contents]

\* ------------------------------------------------------------ local store
EmptyStore == [posts |-> <<>>, files |-> <<>>, related |-> <<>>]

\* session.query(RemotePost).filter(original_id == oid).one_or_none()
QueryMut(s, oid) == None
Query(s, oid) ==
    LET hits == { i \in 1..Len(s.posts) : s.posts[i].original_id = oid }
    IN IF hits = {} THEN None ELSE CHOOSE i \in hits : \A j \in hits : i <= j

\* RemotePost(original_id=..., type=PostType.collection, comment=...); core.add
NewPost(s, oid) ==
    [s EXCEPT !.posts = Append(@, [original_id |-> oid, type |-> "collection",
                                   comment |-> <<>>])]

\* remote_post.files, as indices into s.files, in insertion order
FilesOfMut(s, rp) == <<>>
FilesOf(s, rp) ==
    SelectSeq([i \in 1..Len(s.files) |-> i], LAMBDA i : s.files[i].remote = rp)

\* current_files = {file.remote_order: file for file in remote_post.files}; .get(order)
CurrentFile(s, rp, order) ==
    LET hits == { i \in 1..Len(s.files) :
                    s.files[i].remote = rp /\ s.files[i].remote_order = order }
    IN IF hits = {} THEN None ELSE CHOOSE i \in hits : \A j \in hits : i >= j

\* File(remote=remote_post, remote_order=order); core.add; core.flush; orig_n
\* and thumb_n count the transfers (_download_file) made for the placeholder
AddFile(s, rp, order) ==
    [s EXCEPT !.files = Append(@, [remote |-> rp, remote_order |-> order,
                                   present |-> FALSE, thumb_present |-> FALSE,
                                   orig_n |-> 0, thumb_n |-> 0])]

\* core.import_file(file, orig, thumb, move=True): records what was handed over
ImportFile(s, f, orig, thumb) ==
    [s EXCEPT !.files[f].present = @ \/ orig,
              !.files[f].thumb_present = @ \/ thumb,
              !.files[f].orig_n = IF orig THEN @ + 1 ELSE @,
              !.files[f].thumb_n = IF thumb THEN @ + 1 ELSE @]

\* need_orig = not file.present and not preview
NeedOrigMut(file, preview) == ~file.present
NeedOrig(file, preview) == ~file.present /\ ~preview

\* need_thumb = not file.thumb_present
NeedThumbMut(file) == TRUE
NeedThumb(file) == ~file.thumb_present

\* if need_orig or need_thumb: download what is needed and import it
Transfer(s, f, preview, has_thumb) ==
    LET need_orig == NeedOrig(s.files[f], preview)
        need_thumb == NeedThumb(s.files[f])
    IN IF need_orig \/ need_thumb
       THEN ImportFile(s, f, need_orig, need_thumb /\ has_thumb)
       ELSE s

\* ------------------------------------------------------ content normalizer
\* CHOOSE v \in { e(x) : x \in {d} } : TRUE is e(d), with d evaluated once: the
\* value of a local variable of the code, as the later statements see it
\* content.category == 'file' (lines 308-330): one placeholder at remote_order 0,
\* the thumbnail taken from the parent record's thumb descriptor
FileCategory(s, rp, post, preview) ==
    LET fs == FilesOf(s, rp)
        s1 == IF Len(fs) = 0 THEN AddFile(s, rp, 0) ELSE s
        f == IF Len(fs) = 0 THEN Len(s1.files) ELSE fs[1]
    IN Transfer(s1, f, preview, post.thumb)

\* content.category == 'photo_gallery' (lines 332-354); snap is the store the
\* current_files dict was built from, before the loop
RECURSIVE PhotoGallery(_, _, _, _, _)
PhotoGallery(s, snap, rp, photos, preview) ==
    IF photos = <<>> THEN s
    ELSE LET order == Head(photos)
             file == CurrentFile(snap, rp, order)
             s1 == IF file = None THEN AddFile(s, rp, order) ELSE s
             f == IF file = None THEN Len(s1.files) ELSE file
         IN CHOOSE v \in { PhotoGallery(s2, snap, rp, Tail(photos), preview) :
                             s2 \in {Transfer(s1, f, preview, TRUE)} } : TRUE

\* blog.append(entry)
BlogAppendMut(blog, entry) == <<entry>> \o blog
BlogAppend(blog, entry) == Append(blog, entry)

\* content.category == 'blog', the loop over sections (lines 366-406)
RECURSIVE BlogSections(_, _, _, _, _, _)
BlogSections(s, snap, rp, ops, preview, blog) ==
    IF ops = <<>> THEN [s |-> s, blog |-> blog]
    ELSE LET insert == Head(ops)
         IN CASE insert.kind = "text" ->
                   BlogSections(s, snap, rp, Tail(ops), preview,
                                BlogAppend(blog, [type |-> "text", content |-> insert.v]))
              [] insert.kind = "image" ->
                   LET order == insert.v
                       file == CurrentFile(snap, rp, order)
                       s1 == IF file = None THEN AddFile(s, rp, order) ELSE s
                       f == IF file = None THEN Len(s1.files) ELSE file
                   IN CHOOSE v \in { BlogSections(s2, snap, rp, Tail(ops), preview,
                                        BlogAppend(blog, [type |-> "file", order |-> order])) :
                                       s2 \in {Transfer(s1, f, preview, TRUE)} } : TRUE
              [] OTHER ->
                   BlogSections(s, snap, rp, Tail(ops), preview, blog)

\* content.visible_status == 'visible'
IsVisibleMut(content) == TRUE
IsVisible(content) == content.visible_status = "visible"

KnownCategories == {"file", "photo_gallery", "text", "blog"}

\* Fantia._content_to_post: [s, rp, err]; err is the ValueError of line 413
ContentToPost(s, post, content, remote_post, preview) ==
    LET content_id == <<post.id, content.id>>
        found == IF remote_post = None THEN Query(s, content_id) ELSE remote_post
        s1 == IF found = None THEN NewPost(s, content_id) ELSE s
        rp == IF found = None THEN Len(s1.posts) ELSE found
    IN CASE content.category = "file" ->
              [s |-> FileCategory(s1, rp, post, preview), rp |-> rp, err |-> FALSE]
         [] content.category = "photo_gallery" ->
              [s |-> PhotoGallery(s1, s1, rp, content.photos, preview),
               rp |-> rp, err |-> FALSE]
         [] content.category = "text" ->
              [s |-> [s1 EXCEPT !.posts[rp].type = "set"], rp |-> rp, err |-> FALSE]
         [] content.category = "blog" ->
              LET r == BlogSections(s1, s1, rp, content.ops, preview, <<>>)
              IN [s |-> [r.s EXCEPT !.posts[rp].comment = r.blog,
                                    !.posts[rp].type = "blog"],
                  rp |-> rp, err |-> FALSE]
         [] OTHER ->
              [s |-> s1, rp |-> rp, err |-> TRUE]

\* the Related query and append of lines 503-505
RelateMut(s, parent, child) ==
    [s EXCEPT !.related = Append(@, [related_to_id |-> parent, remote_id |-> child])]
Relate(s, parent, child) ==
    IF \E i \in 1..Len(s.related) :
           s.related[i].related_to_id = parent /\ s.related[i].remote_id = child
    THEN s
    ELSE [s EXCEPT !.related = Append(@, [related_to_id |-> parent, remote_id |-> child])]

\* the loop over post.post_contents (lines 497-507): [s, out, err]
RECURSIVE Contents(_, _, _, _, _, _)
Contents(s, post, contents, remote_post, preview, out) ==
    IF contents = <<>> THEN [s |-> s, out |-> out, err |-> FALSE]
    ELSE IF IsVisible(Head(contents))
         THEN CHOOSE v \in
                { IF r.err THEN [s |-> r.s, out |-> out, err |-> TRUE]
                  ELSE CHOOSE w \in
                         { Contents(s2, post, Tail(contents), remote_post, preview,
                                    Append(out, r.rp)) :
                           s2 \in {Relate(r.s, remote_post, r.rp)} } : TRUE :
                  r \in {ContentToPost(s, post, Head(contents), None, preview)} } : TRUE
         ELSE Contents(s, post, Tail(contents), remote_post, preview, out)

\* the collection post's thumbnail (lines 476-494): [s, err]; err is the
\* AttributeError of post.thumb.original / post.thumb.medium on a record
\* without a thumb descriptor
Thumbnail(s, rp, post, preview) ==
    LET fs == FilesOf(s, rp)
        s1 == IF Len(fs) = 0 /\ post.thumb THEN AddFile(s, rp, 0) ELSE s
        f == IF Len(fs) = 0
             THEN (IF post.thumb THEN Len(s1.files) ELSE None)
             ELSE fs[1]
    IN IF f = None THEN [s |-> s1, err |-> FALSE]
       ELSE IF NeedOrig(s1.files[f], preview) \/ NeedThumb(s1.files[f])
            THEN IF post.thumb
                 THEN [s |-> Transfer(s1, f, preview, TRUE), err |-> FALSE]
                 ELSE [s |-> s1, err |-> TRUE]
            ELSE [s |-> s1, err |-> FALSE]

\* Fantia._to_remote_posts: [s, out, err, raised], out the returned list of posts
\* (nothing is returned when the call raises), raised the exception that left it.
\* With a remote_post given, line 427 splits remote_post.id, the integer key
\* the flush assigns (the key lines 313 and 503 use), not original_id (the
\* attribute download splits at line 526): an integer has no split, the call
\* raises AttributeError and lines 428-436 are never reached.
ToRemotePosts(s, post, remote_post, preview) ==
    IF remote_post # None
    THEN [s |-> s, out |-> <<>>, err |-> TRUE, raised |-> "AttributeError"]
    ELSE LET main_id == <<post.id>>
             found == Query(s, main_id)
             s1 == IF found = None THEN NewPost(s, main_id) ELSE s
             rp == IF found = None THEN Len(s1.posts) ELSE found
         IN CHOOSE v \in
              { IF t.err
                THEN [s |-> t.s, out |-> <<>>, err |-> TRUE, raised |-> "AttributeError"]
                ELSE CHOOSE w \in
                       { IF c.err
                         THEN [s |-> c.s, out |-> <<>>, err |-> TRUE,
                               raised |-> "ValueError"]
                         ELSE [s |-> c.s, out |-> c.out, err |-> FALSE,
                               raised |-> "none"] :
                         c \in {Contents(t.s, post, post.post_contents, rp, preview,
                                         <<rp>>)} } : TRUE :
                t \in {Thumbnail(s1, rp, post, preview)} } : TRUE

\* ------------------------------------------------------------------ state
VARIABLES
    top,        \* upstream: the creator's chain holds the records 1..top
    sub,        \* the Subscription row: exists, state (cursor JSON), feed, origin,
                \* seen (the records its iterator had yielded when it was created)
    it,         \* the CreatorIterator object: head_id, tail_id, state, subscription
    pc,         \* where the fetch generator of the iterator stands
    run,        \* the arguments and locals of the current (or last) fetch run
    store,      \* the session's posts, files and Related links, pending included
    durable,    \* what the last core.commit() made durable
    committed,  \* records a subscription run has yielded and committed
    aborts,     \* transport errors raised so far
    calls,      \* single-record downloads made so far
    last,       \* the last call of _to_remote_posts: arguments and result
    parsed      \* the last call of parse_url: argument and outcome

vars == <<top, sub, it, pc, run, store, durable, committed, aborts, calls, last, parsed>>

\* hoordu.Dynamic(): state.get('head_id') and state.get('tail_id') are None
EmptyState == [head_id |-> None, tail_id |-> None]

NoRun ==
    [reqdir |-> "newer", direction |-> "newer", n |-> NoLimit, count |-> 0,
     post_id |-> None, yielded |-> <<>>, links |-> <<>>, seed |-> None,
     seeded |-> FALSE, recent |-> 0, gets |-> 0, start |-> EmptyState,
     persisted |-> FALSE, prior |-> {}, feed0 |-> 0, saved |-> EmptyState,
     outcome |-> "none"]

NoCall ==
    [post |-> PostDoc(None, 0, FALSE, <<>>), remote_post |-> None, preview |-> FALSE,
     out |-> <<>>, posts |-> <<>>, err |-> FALSE, raised |-> "none", before |-> 0]

Init ==
    /\ top = 0
    /\ sub = [exists |-> FALSE, state |-> EmptyState, feed |-> <<>>, origin |-> "none",
              seen |-> {}]
    /\ it = [exists |-> FALSE, subscribed |-> FALSE, head_id |-> None,
             tail_id |-> None, state |-> EmptyState]
    /\ pc = "idle"
    /\ run = NoRun
    /\ store = EmptyStore
    /\ durable = [store |-> EmptyStore, state |-> EmptyState, feed |-> <<>>]
    /\ committed = {}
    /\ aborts = 0
    /\ calls = 0
    /\ last = NoCall
    /\ parsed = [called |-> FALSE, url |-> <<>>, kind |-> "none", v |-> <<>>]

\* ------------------------------------------------------------- upstream
\* the creator publishes a record: it becomes the most recent post
Publish ==
    /\ top < MaxPosts
    /\ top' = top + 1
    /\ UNCHANGED <<parsed, sub, it, pc, run, store, durable, committed, aborts, calls, last>>

\* --------------------------------------------------------- CreatorIterator
\* Fantia.create_subscription(name, options): state = hoordu.Dynamic()
CreateSubscription ==
    /\ ~sub.exists
    /\ sub' = [exists |-> TRUE, state |-> EmptyState, feed |-> <<>>, origin |-> "options",
               seen |-> {}]
    /\ UNCHANGED <<parsed, top, it, pc, run, store, durable, committed, aborts, calls, last>>

\* the records normalized so far, each yielded by a fetch run
YieldedRecords ==
    { store.posts[rp].original_id[1] :
        rp \in { i \in 1..Len(store.posts) : Len(store.posts[i].original_id) = 1 } }

\* Fantia.create_subscription(name, iterator=it): state = iterator.state, what
\* _save_state wrote last; the iterator becomes the iterator of the subscription
CreateSubscriptionFrom ==
    /\ pc = "idle"
    /\ it.exists
    /\ ~it.subscribed
    /\ ~sub.exists
    /\ sub' = [exists |-> TRUE, state |-> it.state, feed |-> <<>>, origin |-> "iterator",
               seen |-> YieldedRecords]
    /\ it' = [it EXCEPT !.subscribed = TRUE]
    /\ run' = NoRun
    /\ UNCHANGED <<parsed, top, pc, store, durable, committed, aborts, calls, last>>

\* the consumer of a search stops at a yielded post and drops the generator:
\* nothing after the yield of line 118 runs
Abandon ==
    /\ pc = "yield"
    /\ ~it.subscribed
    /\ pc' = "idle"
    /\ run' = [run EXCEPT !.outcome = "abandoned"]
    /\ UNCHANGED <<parsed, top, sub, it, store, durable, committed, aborts, calls, last>>

\* Fantia.get_iterator(subscription): CreatorIterator.__init__ with a subscription
GetIterator ==
    /\ pc = "idle"
    /\ sub.exists
    /\ it' = [exists |-> TRUE, subscribed |-> TRUE, head_id |-> sub.state.head_id,
              tail_id |-> sub.state.tail_id, state |-> sub.state]
    /\ UNCHANGED <<parsed, top, sub, pc, run, store, durable, committed, aborts, calls, last>>

\* Fantia.search(options): CreatorIterator.__init__ without a subscription
Search ==
    /\ pc = "idle"
    /\ it' = [exists |-> TRUE, subscribed |-> FALSE, head_id |-> None,
              tail_id |-> None, state |-> EmptyState]
    /\ UNCHANGED <<parsed, top, sub, pc, run, store, durable, committed, aborts, calls, last>>

\* if self.tail_id is None: direction = FetchDirection.older
ForcedDirectionMut(direction, tail_id) == direction
ForcedDirection(direction, tail_id) ==
    IF tail_id = None THEN "older" ELSE direction

\* for _ in range(n) / iter(int, 1): is there another iteration after count
LoopPc(count, n) == IF n # NoLimit /\ count >= n THEN "finish" ELSE "loop"

\* post.links.next if direction == newer else post.links.previous
NextPostMut(links, direction) == links.next
NextPost(links, direction) ==
    IF direction = "newer" THEN links.next ELSE links.previous

\* CreatorIterator.fetch(direction, n) up to the call of _post_iterator
Fetch(direction, n) ==
    /\ pc = "idle"
    /\ it.exists
    /\ pc' = "start"
    /\ run' = [NoRun EXCEPT !.reqdir = direction,
                            !.direction = ForcedDirection(direction, it.tail_id),
                            !.n = n,
                            !.start = [head_id |-> it.head_id, tail_id |-> it.tail_id],
                            !.persisted = /\ it.subscribed
                                          /\ it.head_id = sub.state.head_id
                                          /\ it.tail_id = sub.state.tail_id,
                            !.prior = committed,
                            !.feed0 = Len(sub.feed)]
    /\ UNCHANGED <<parsed, top, sub, it, store, durable, committed, aborts, calls, last>>

\* if not fanclub.recent_posts: return; post_id = fanclub.recent_posts[0].id
SeedIdMut(recent_posts) == IF Len(recent_posts) = 0 THEN 1 ELSE recent_posts[1]
SeedId(recent_posts) == IF Len(recent_posts) = 0 THEN None ELSE recent_posts[1]

\* _post_iterator before its loop (lines 53-80): seed from the fanclub summary,
\* or fetch the cursor record again and follow its link
PostIteratorStart ==
    /\ pc = "start"
    /\ LET post_id == IF run.direction = "newer" THEN it.head_id ELSE it.tail_id
       IN IF post_id = None
          THEN LET seed == SeedId(RecentPosts(top))
               IN IF seed = None
                  THEN /\ pc' = "finish"
                       /\ run' = [run EXCEPT !.seeded = TRUE, !.recent = top]
                       /\ it' = it
                  ELSE /\ pc' = LoopPc(0, run.n)
                       /\ run' = [run EXCEPT !.post_id = seed, !.seed = seed,
                                             !.seeded = TRUE, !.recent = top]
                       /\ it' = [it EXCEPT !.head_id = seed, !.tail_id = seed]
          ELSE LET next_post == NextPost(LinksOf(post_id, top), run.direction)
               IN /\ it' = it
                  /\ IF next_post = None
                     THEN /\ pc' = "finish"
                          /\ run' = [run EXCEPT !.gets = @ + 1]
                     ELSE /\ pc' = LoopPc(0, run.n)
                          /\ run' = [run EXCEPT !.gets = @ + 1, !.post_id = next_post]
    /\ UNCHANGED <<parsed, top, sub, store, durable, committed, aborts, calls, last>>

\* what a call of _to_remote_posts was given and what it returned; out holds the
\* original_id of each returned post, posts the returned posts themselves
Call(post, remote_post, preview, r, before) ==
    [post |-> post, remote_post |-> remote_post, preview |-> preview,
     out |-> [i \in 1..Len(r.out) |-> r.s.posts[r.out[i]].original_id],
     posts |-> r.out, err |-> r.err, raised |-> r.raised, before |-> before]

\* one iteration of the loop of _post_iterator up to its yield (lines 82-88) and
\* the normalization of the yielded record in fetch (line 116), up to the yield
\* of its posts; an error of the normalizer ends the run
LoopFetch ==
    /\ pc = "loop"
    /\ LET post == PostDoc(run.post_id, top, TRUE, FeedContents(run.post_id))
       IN \E r \in {ToRemotePosts(store, post, None, ~it.subscribed)} :
            /\ store' = r.s
            /\ last' = Call(post, None, ~it.subscribed, r, Len(store.posts))
            /\ IF r.err
               THEN /\ pc' = "idle"
                    /\ run' = [run EXCEPT !.count = @ + 1, !.gets = @ + 1,
                                          !.outcome = "error"]
               ELSE /\ pc' = "yield"
                    /\ run' = [run EXCEPT !.count = @ + 1, !.gets = @ + 1,
                                          !.yielded = Append(@, run.post_id),
                                          !.links = Append(@, NextPost(post.links,
                                                                       run.direction))]
    /\ UNCHANGED <<parsed, top, sub, it, durable, committed, aborts, calls>>

\* core.commit(): what is durable after it, given the pending session and what
\* was durable before
CoreCommitMut(pending, before) == before
CoreCommit(pending, before) == pending

\* the rest of the loop body of fetch (lines 120-127): feed append and commit
Commit ==
    /\ pc = "yield"
    /\ sub' = IF it.subscribed THEN [sub EXCEPT !.feed = @ \o last.posts] ELSE sub
    /\ durable' = CoreCommit([store |-> store, state |-> sub'.state, feed |-> sub'.feed],
                             durable)
    /\ committed' = IF it.subscribed THEN committed \cup {run.post_id} ELSE committed
    /\ pc' = "advance"
    /\ UNCHANGED <<parsed, top, it, run, store, aborts, calls, last>>

\* after the yield: break when the record has no link, else the next iteration
AfterYieldMut(next_post, count, n) == LoopPc(count, n)
AfterYield(next_post, count, n) ==
    IF next_post = None THEN "finish" ELSE LoopPc(count, n)

\* _post_iterator after its yield (lines 90-99): move the cursor of the walking
\* direction to the yielded record, then follow its link
Advance ==
    /\ pc = "advance"
    /\ it' = IF run.direction = "newer"
             THEN [it EXCEPT !.head_id = run.post_id]
             ELSE [it EXCEPT !.tail_id = run.post_id]
    /\ LET next_post == run.links[Len(run.links)]
       IN /\ pc' = AfterYield(next_post, run.count, run.n)
          /\ run' = IF next_post = None THEN run
                    ELSE [run EXCEPT !.post_id = next_post]
    /\ UNCHANGED <<parsed, top, sub, store, durable, committed, aborts, calls, last>>

\* _save_state writing head_id alone
SaveStateMut(iter) ==
    [iter EXCEPT !.state = [head_id |-> iter.head_id, tail_id |-> None]]

\* CreatorIterator._save_state: the iterator with its state written
SaveState(iter) ==
    [iter EXCEPT !.state = [head_id |-> iter.head_id, tail_id |-> iter.tail_id]]

\* the end of fetch (lines 129-131): _save_state, core.add(subscription)
Finish ==
    /\ pc = "finish"
    /\ it' = SaveState(it)
    /\ sub' = IF it.subscribed THEN [sub EXCEPT !.state = it'.state] ELSE sub
    /\ pc' = "idle"
    /\ run' = [run EXCEPT !.outcome = "done", !.saved = it'.state]
    /\ UNCHANGED <<parsed, top, store, durable, committed, aborts, calls, last>>

\* response.raise_for_status() raises at one of the GETs of _post_iterator
\* (lines 57, 72, 84): the error leaves fetch, nothing after it runs
Abort ==
    /\ pc \in {"start", "loop"}
    /\ aborts < MaxAborts
    /\ aborts' = aborts + 1
    /\ pc' = "idle"
    /\ run' = [run EXCEPT !.outcome = "aborted"]
    /\ UNCHANGED <<parsed, top, sub, it, store, durable, committed, calls, last>>

\* the session when the first transfer of a record's normalization is about to
\* start (lines 438-491): the collection post and its placeholder are pending
PendingThumbnail(s, post) ==
    LET found == Query(s, <<post.id>>)
        s1 == IF found = None THEN NewPost(s, <<post.id>>) ELSE s
        rp == IF found = None THEN Len(s1.posts) ELSE found
        fs == FilesOf(s1, rp)
        s2 == IF Len(fs) = 0 THEN AddFile(s1, rp, 0) ELSE s1
    IN [s |-> s2, f |-> IF Len(fs) = 0 THEN Len(s2.files) ELSE fs[1]]

\* resp.raise_for_status() raises in _download_file (line 249) at the first
\* transfer of the record in progress: the error leaves _to_remote_posts and
\* fetch, the session keeps what was pending, nothing is committed
AbortTransfer ==
    /\ pc = "loop"
    /\ aborts < MaxAborts
    /\ \E p \in {PendingThumbnail(store, PostDoc(run.post_id, top, TRUE,
                                                  FeedContents(run.post_id)))} :
          /\ NeedOrig(p.s.files[p.f], ~it.subscribed) \/ NeedThumb(p.s.files[p.f])
          /\ store' = p.s
    /\ aborts' = aborts + 1
    /\ pc' = "idle"
    /\ run' = [run EXCEPT !.gets = @ + 1, !.outcome = "aborted"]
    /\ UNCHANGED <<parsed, top, sub, it, durable, committed, calls, last>>

\* the process dies at any point of a subscription run and is started again:
\* the session, the subscription row and the feed are what the last
\* core.commit() made durable, the iterator object is gone
Crash ==
    /\ pc # "idle"
    /\ it.subscribed
    /\ aborts < MaxAborts
    /\ aborts' = aborts + 1
    /\ store' = durable.store
    /\ sub' = [sub EXCEPT !.state = durable.state, !.feed = durable.feed]
    /\ it' = [exists |-> FALSE, subscribed |-> FALSE, head_id |-> None,
              tail_id |-> None, state |-> EmptyState]
    /\ pc' = "idle"
    /\ run' = [run EXCEPT !.outcome = "crashed"]
    /\ UNCHANGED <<parsed, top, durable, committed, calls, last>>

\* ------------------------------------------------------------------ Fantia
\* Fantia.download(url=post id, preview)
Download(id, thumb, contents, preview) ==
    /\ pc = "idle"
    /\ calls < MaxCalls
    /\ calls' = calls + 1
    /\ LET post == PostDoc(id, top, thumb, contents)
       IN \E r \in {ToRemotePosts(store, post, None, preview)} :
            /\ store' = r.s
            /\ last' = Call(post, None, preview, r, Len(store.posts))
    /\ UNCHANGED <<parsed, top, sub, it, pc, run, durable, committed, aborts>>

\* Fantia.download(remote_post=existing post, preview): post_id is the first
\* part of remote_post.original_id (line 526)
DownloadExisting(remote_post, thumb, contents, preview) ==
    /\ pc = "idle"
    /\ calls < MaxCalls
    /\ calls' = calls + 1
    /\ LET post == PostDoc(store.posts[remote_post].original_id[1], top, thumb, contents)
       IN \E r \in {ToRemotePosts(store, post, remote_post, preview)} :
            /\ store' = r.s
            /\ last' = Call(post, remote_post, preview, r, Len(store.posts))
    /\ UNCHANGED <<parsed, top, sub, it, pc, run, durable, committed, aborts>>

\* --------------------------------------------------------------- parse_url
\* a url is a sequence of tokens: "posts" is the text http(s)://fantia.jp/posts/,
\* "fanclubs" the text http(s)://fantia.jp/fanclubs/, "d" a decimal digit, "x"
\* any other character
UrlTokens == {"posts", "fanclubs", "d", "/", "?", "#", "x"}
Urls == UNION { [1..k -> UrlTokens] : k \in 0..MaxUrlLen }

\* the length of the longest run of digits of url from position i on
RECURSIVE Digits(_, _)
Digits(url, i) ==
    IF i <= Len(url) /\ url[i] = "d" THEN 1 + Digits(url, i + 1) ELSE 0

\* url.isdigit()
IsDigit(url) == Len(url) > 0 /\ \A i \in 1..Len(url) : url[i] = "d"

\* a match of head, one or more digits, then nothing or a rest that starts
\* with one of the characters of rest: the digits matched, <<>> without a match
RegexpMatch(url, head, rest) ==
    IF /\ Len(url) >= 2
       /\ url[1] = head
       /\ Digits(url, 2) >= 1
       /\ \/ Len(url) = 1 + Digits(url, 2)
          \/ url[2 + Digits(url, 2)] \in rest
    THEN SubSeq(url, 2, 1 + Digits(url, 2))
    ELSE <<>>

\* POST_REGEXP.match(url) and its group post_id
PostMatch(url) == RegexpMatch(url, "posts", {"?", "#"})

\* FANCLUB_REGEXP.match(url) and its group fanclub_id
FanclubMatch(url) == RegexpMatch(url, "fanclubs", {"/", "?", "#"})

\* Fantia.parse_url: the remote id, a search Dynamic with creator_id, or the
\* NameError of line 230, which returns the name post_id that the function
\* never binds (a group of the regexp is no variable)
ParseUrl(url) ==
    IF IsDigit(url) THEN [kind |-> "id", v |-> url]
    ELSE IF PostMatch(url) # <<>> THEN [kind |-> "id", v |-> PostMatch(url)]
    ELSE IF FanclubMatch(url) # <<>> THEN [kind |-> "search", v |-> FanclubMatch(url)]
    ELSE [kind |-> "NameError", v |-> <<>>]

\* a call of parse_url
Parse(url) ==
    /\ parsed' = [called |-> TRUE, url |-> url, kind |-> ParseUrl(url).kind,
                  v |-> ParseUrl(url).v]
    /\ UNCHANGED <<top, sub, it, pc, run, store, durable, committed, aborts, calls, last>>

\* ---------------------------------------------------------- specifications
Next ==
    \/ Publish
    \/ CreateSubscription
    \/ GetIterator
    \/ (~sub.exists /\ Search)
    \/ \E d \in Directions, n \in Limits : Fetch(d, n)
    \/ PostIteratorStart
    \/ LoopFetch
    \/ Commit
    \/ Advance
    \/ Finish
    \/ Abort

Spec == Init /\ [][Next]_vars

\* the steps of a fetch run; pc enables at most one of them
RunStep == PostIteratorStart \/ LoopFetch \/ Commit \/ Advance \/ Finish

\* the runs of one subscription when every GET succeeds: a generator that
\* is being consumed always takes its next step
PageNext ==
    \/ Publish
    \/ CreateSubscription
    \/ GetIterator
    \/ \E d \in Directions, n \in Limits : Fetch(d, n)
    \/ RunStep

FairSpec == Init /\ [][PageNext]_vars /\ WF_vars(RunStep)

\* the runs of one subscription with transport errors at the GETs and at the
\* transfers
AbortNext ==
    \/ Publish
    \/ CreateSubscription
    \/ GetIterator
    \/ \E d \in Directions, n \in Limits : Fetch(d, n)
    \/ RunStep
    \/ Abort
    \/ AbortTransfer

AbortSpec == Init /\ [][AbortNext]_vars

\* the runs of one subscription with crashes of the process
CrashNext ==
    \/ Publish
    \/ CreateSubscription
    \/ GetIterator
    \/ \E d \in Directions, n \in Limits : Fetch(d, n)
    \/ RunStep
    \/ Crash

CrashSpec == Init /\ [][CrashNext]_vars

\* searches and subscription runs over the same records in any order, every run
\* without a limit and without errors
GateNext ==
    \/ Publish
    \/ CreateSubscription
    \/ GetIterator
    \/ Search
    \/ \E d \in Directions : Fetch(d, NoLimit)
    \/ RunStep

GateSpec == Init /\ [][GateNext]_vars

\* one search iterator, consumed to the end or abandoned, the subscription made
\* from it, and the runs of that subscription
IterNext ==
    \/ Publish
    \/ (~it.exists /\ Search)
    \/ CreateSubscriptionFrom
    \/ GetIterator
    \/ \E d \in Directions, n \in Limits : Fetch(d, n)
    \/ RunStep
    \/ Abandon

IterSpec == Init /\ [][IterNext]_vars

\* parse_url alone, over every url of the bounded alphabet
ParseNext == \E url \in Urls : Parse(url)

ParseSpec == Init /\ [][ParseNext]_vars

\* the normalizer alone, driven by single-record downloads
NormNext ==
    \/ \E id \in RecordIds, thumb \in BOOLEAN :
          \E contents \in ContentLists(id), preview \in PreviewModes(id) :
             Download(id, thumb, contents, preview)
    \/ \E remote_post \in 1..Len(store.posts), contents \in RefreshLists :
          DownloadExisting(remote_post, TRUE, contents, FALSE)

NormSpec == Init /\ [][NormNext]_vars

\* ------------------------------------------------------------------ claims
\* the cursor of the walking direction in a cursor state
CursorOf(state, direction) ==
    IF direction = "newer" THEN state.head_id ELSE state.tail_id

\* C1: no record is skipped across runs: for a subscription created without a
\* cursor, after any sequence of completed runs (no run aborted), every record
\* from the persisted tail_id to the persisted head_id has been yielded by a run.
C1_NoRecordSkipped ==
    (pc = "idle" /\ sub.origin = "options" /\ aborts = 0 /\ sub.state.head_id # None)
        => \A r \in sub.state.tail_id..sub.state.head_id : r \in committed

\* C2: no record is revisited across runs: a run that starts from the persisted
\* cursor state of the subscription never yields a record that an earlier run of
\* the subscription yielded and committed, also after an aborted run.
C2_NoRecordRevisited ==
    (run.persisted /\ sub.origin = "options")
        => \A i \in 1..Len(run.yielded) : run.yielded[i] \notin run.prior

\* C3: the cursor is persisted after every record: once a record of a
\* subscription run has been processed and its commit has completed, the
\* persisted state of the subscription holds that record as the cursor of the
\* walking direction.
C3_CursorPersistedPerRecord ==
    (pc = "advance" /\ it.subscribed)
        => CursorOf(sub.state, run.direction) = run.post_id

\* C4: post identity is unique: the store never holds two posts with the same
\* original_id, whatever records were normalized and how often.
C4_PostIdentityUnique ==
    \A i, j \in 1..Len(store.posts) :
        store.posts[i].original_id = store.posts[j].original_id => i = j

\* a normalization that returned the collection post and a sub-content post
\* and created neither: both were found by their identity
C4_Witness ==
    /\ calls = 2
    /\ ~last.err
    /\ Len(last.out) >= 2
    /\ last.before = Len(store.posts)

\* C5: file placeholders are unique per (post, remote_order): no post owns two
\* placeholders with the same remote_order.
C5_FilePlaceholdersUnique ==
    \A i, j \in 1..Len(store.files) :
        (/\ store.files[i].remote = store.files[j].remote
         /\ store.files[i].remote_order = store.files[j].remote_order) => i = j

\* the elements of a sequence
Range(seq) == { seq[i] : i \in 1..Len(seq) }

\* the items of a post_contents list whose visible_status is 'visible'
Shown(contents) == SelectSeq(contents, LAMBDA c : c.visible_status = "visible")

\* every visible item is of a category _content_to_post knows
AllKnown(contents) ==
    \A i \in 1..Len(contents) :
        contents[i].visible_status = "visible" => contents[i].category \in KnownCategories

\* C6: decomposition count and order: normalizing a record with K visible items
\* (all of a known category) and any number of others returns exactly 1 + K
\* posts: the collection post, then one post per visible item in post_contents
\* order, with original_id <<record id, content id>>.
C6_DecompositionCountAndOrder ==
    (calls > 0 /\ last.remote_post = None /\ AllKnown(last.post.post_contents))
        => /\ ~last.err
           /\ Len(last.out) = 1 + Len(Shown(last.post.post_contents))
           /\ last.out[1] = <<last.post.id>>
           /\ \A i \in 1..Len(Shown(last.post.post_contents)) :
                last.out[i + 1] = <<last.post.id, Shown(last.post.post_contents)[i].id>>

\* C7: the first element normalize returns is the collection post of the record,
\* for every call on a record whose visible items are of a known category,
\* whether an existing post is given or not.
C7_FirstIsCollectionPost ==
    (calls > 0 /\ AllKnown(last.post.post_contents))
        => /\ ~last.err
           /\ Len(last.out) >= 1
           /\ last.out[1] = <<last.post.id>>

\* C8, safety: only the last record a run yielded may lack a link in the walking
\* direction, and no iteration is pending after such a record.
PaginationStops ==
    /\ \A i \in 1..(Len(run.links) - 1) : run.links[i] # None
    /\ (pc = "loop" /\ run.links # <<>>) => run.links[Len(run.links)] # None
    /\ run.gets <= Len(run.yielded) + 1

\* C8: pagination termination: a yielded record without a link in the walking
\* direction ends the sequence for every limit, and every run ends.
C8_PaginationTerminates ==
    /\ []PaginationStops
    /\ (pc # "idle") ~> (pc = "idle")

\* a run without a limit ended at a record that has no link
C8_Witness ==
    /\ run.outcome = "done"
    /\ run.n = NoLimit
    /\ Len(run.yielded) >= 2
    /\ run.links[Len(run.links)] = None

\* the records a walk backward from seed yields under limit n
OlderWalk(seed, n) ==
    LET k == IF n = NoLimit \/ n > seed THEN seed ELSE n
    IN [i \in 1..k |-> seed + 1 - i]

\* C9: direction forcing: a run on a session without a tail cursor yields the
\* walk backward from the seed and leaves head_id at the seed and tail_id at the
\* last record yielded, whichever direction was asked for.
C9_DirectionForcing ==
    (run.outcome = "done" /\ run.start.tail_id = None)
        => /\ run.direction = "older"
           /\ run.yielded = OlderWalk(run.seed, run.n)
           /\ run.saved.head_id = run.seed
           /\ run.saved.tail_id = IF run.yielded = <<>> THEN run.seed
                                  ELSE run.yielded[Len(run.yielded)]

\* a fresh session asked for newer records walked two records backward
C9_Witness ==
    /\ run.outcome = "done"
    /\ run.start.tail_id = None
    /\ run.reqdir = "newer"
    /\ Len(run.yielded) >= 2

\* C10: empty seed: a run without a cursor that finds the recent-posts list
\* empty yields nothing, fetches no record, appends nothing to the feed and
\* leaves head_id and tail_id absent.
C10_EmptySeed ==
    (run.outcome = "done" /\ run.start = EmptyState /\ run.seeded /\ run.recent = 0)
        => /\ run.yielded = <<>>
           /\ run.gets = 0
           /\ Len(sub.feed) = run.feed0
           /\ run.saved = EmptyState
           /\ it.head_id = None /\ it.tail_id = None
           /\ sub.state = EmptyState

\* a subscription run found the recent-posts list empty and ended
C10_Witness ==
    /\ run.outcome = "done"
    /\ run.seeded
    /\ run.recent = 0
    /\ sub.exists
    /\ run.persisted

\* what normalizing record id in a subscription run leaves in store s: the
\* collection post with its thumbnail placeholder and one post per visible item,
\* every placeholder with original and thumbnail imported
Produced(s, id) ==
    /\ \A oid \in {<<id>>} \cup { <<id, c.id>> : c \in Range(Shown(FeedContents(id))) } :
          /\ Query(s, oid) # None
          /\ \A i \in 1..Len(s.files) :
                s.files[i].remote = Query(s, oid)
                    => s.files[i].present /\ s.files[i].thumb_present
    /\ FilesOf(s, Query(s, <<id>>)) # <<>>

\* C11: committed progress survives a transport error: when a GET or a transfer
\* for the next record raises in a subscription run, the run stops and the
\* durable store holds every post, placeholder and presence flag produced for
\* the records yielded before, and the durable feed their posts.
C11_CommittedProgressSurvives ==
    (run.outcome = "aborted" /\ it.subscribed)
        => /\ pc = "idle"
           /\ \A i \in 1..Len(run.yielded) : Produced(durable.store, run.yielded[i])
           /\ Len(durable.feed) >= run.feed0 + Len(run.yielded)
           /\ durable.feed = sub.feed

\* a transfer for the third record raised after two records were committed,
\* leaving pending changes that are not durable
C11_Witness ==
    /\ run.outcome = "aborted"
    /\ it.subscribed
    /\ Len(run.yielded) = 2
    /\ store # durable.store

\* C12: an unknown content category is fatal: normalizing a record with a visible
\* item of a category other than file, photo_gallery, text and blog ends in an
\* error and returns no list; an item of unknown category that is not visible
\* raises no error (no ValueError leaves a call whose visible items are known).
C12_UnknownCategoryFatal ==
    (calls > 0 /\ last.remote_post = None)
        => /\ ~AllKnown(last.post.post_contents) => (last.err /\ last.out = <<>>)
           /\ AllKnown(last.post.post_contents) => last.raised # "ValueError"

\* a record with a visible file item followed by a visible item of unknown
\* category ended in the ValueError of _content_to_post
C12_Witness ==
    /\ calls > 0
    /\ last.remote_post = None
    /\ Len(last.post.post_contents) = 2
    /\ last.post.post_contents[1].category = "file"
    /\ last.post.post_contents[2].category \notin KnownCategories
    /\ Len(Shown(last.post.post_contents)) = 2
    /\ last.raised = "ValueError"

\* the item of a post_contents list with content id cid is there and visible
VisibleIn(contents, cid) ==
    \E i \in 1..Len(contents) :
        contents[i].id = cid /\ contents[i].visible_status = "visible"

\* C13: refreshing a removed sub-content is a no-op: normalizing an existing
\* sub-content post against a record in which its content id is missing or not
\* visible returns exactly that post, raises no error and creates nothing.
C13_RefreshRemovedIsNoOp ==
    (/\ calls > 0
     /\ last.remote_post # None
     /\ Len(store.posts[last.remote_post].original_id) = 2
     /\ ~VisibleIn(last.post.post_contents,
                   store.posts[last.remote_post].original_id[2]))
        => /\ ~last.err
           /\ last.posts = <<last.remote_post>>
           /\ Len(store.posts) = last.before

\* C14: input resolution is total: parse_url returns the record id for a bare
\* decimal string or a post url, a search spec with the creator id for a fanclub
\* url, and the unsupported outcome None for every other input; it never raises.
C14_ParseUrlTotal ==
    parsed.called
        => /\ IsDigit(parsed.url) => (parsed.kind = "id" /\ parsed.v = parsed.url)
           /\ (~IsDigit(parsed.url) /\ PostMatch(parsed.url) # <<>>)
                 => (parsed.kind = "id" /\ parsed.v = PostMatch(parsed.url))
           /\ (~IsDigit(parsed.url) /\ PostMatch(parsed.url) = <<>>
                                    /\ FanclubMatch(parsed.url) # <<>>)
                 => (parsed.kind = "search" /\ parsed.v = FanclubMatch(parsed.url))
           /\ (~IsDigit(parsed.url) /\ PostMatch(parsed.url) = <<>>
                                    /\ FanclubMatch(parsed.url) = <<>>)
                 => parsed.kind = "none"

\* the placeholders post rp owns in the store
Owned(rp) == { i \in 1..Len(store.files) : store.files[i].remote = rp }

\* the collection posts of the store
CollectionPosts == { rp \in 1..Len(store.posts) : Len(store.posts[rp].original_id) = 1 }

\* C15 as stated: after a record was normalized, with or without a thumbnail
\* descriptor, its collection post owns exactly one placeholder, at remote_order 0.
C15_ExactlyOnePlaceholder ==
    (calls > 0 /\ last.remote_post = None /\ ~last.err)
        => /\ Cardinality(Owned(last.posts[1])) = 1
           /\ \A i \in Owned(last.posts[1]) : store.files[i].remote_order = 0

\* C15, amended: a collection post owns at most one placeholder, at remote_order
\* 0, whatever was normalized and how often; it owns one after a normalization
\* of its record that was served a thumbnail descriptor, and none when the only
\* normalization so far was served none.
C15_AtMostOnePlaceholder ==
    /\ \A rp \in CollectionPosts :
          /\ Cardinality(Owned(rp)) <= 1
          /\ \A i \in Owned(rp) : store.files[i].remote_order = 0
    /\ (calls > 0 /\ last.remote_post = None /\ last.post.thumb)
          => \E rp \in CollectionPosts :
                /\ store.posts[rp].original_id = <<last.post.id>>
                /\ Cardinality(Owned(rp)) = 1
    /\ (calls = 1 /\ ~last.post.thumb)
          => \A rp \in CollectionPosts : Owned(rp) = {}

\* a record with a thumbnail descriptor was normalized a second time: its
\* collection post was found and still owns one placeholder
C15_Witness ==
    /\ calls = 2
    /\ last.remote_post = None
    /\ last.post.thumb
    /\ ~last.err
    /\ last.before = Len(store.posts)
    /\ Len(store.files) = 1
    /\ Owned(last.posts[1]) = {1}

\* the placeholders of store s that the posts of the sequence posts own
FilesOfPosts(s, posts) ==
    { i \in 1..Len(s.files) : s.files[i].remote \in Range(posts) }

\* C16: preview gating: a fetch of a search iterator normalizes with preview
\* true and one of a subscription with preview false; a normalization with
\* preview true imports no original, whatever the presence flags are; in either
\* mode every thumbnail that is not present is imported (the records of a run
\* carry their thumbnail descriptors), and without preview every original that
\* is not present.
C16_PreviewGating ==
    [][(pc = "loop" /\ pc' = "yield")
         => /\ last'.preview = ~it.subscribed
            /\ last'.preview
                 => \A i \in 1..Len(store'.files) :
                       store'.files[i].present
                           => (i <= Len(store.files) /\ store.files[i].present)
            /\ \A i \in FilesOfPosts(store', last'.posts) :
                  /\ store'.files[i].thumb_present
                  /\ ~last'.preview => store'.files[i].present]_vars

\* a search normalized a record whose originals a subscription run had imported
\* before, and a record whose placeholders hold thumbnails only
C16_Witness ==
    /\ pc = "yield"
    /\ last.preview
    /\ \E i \in FilesOfPosts(store, last.posts) : store.files[i].present
    /\ \E i \in 1..Len(store.files) : ~store.files[i].present

\* the record i links away from record c in the walking direction
Successor(c, i, direction) == IF direction = "newer" THEN c + i ELSE c - i

\* C17: yield order and limit within one run: a completed run on an existing
\* cursor yields the records that follow the cursor record in the direction
\* asked for, each the link-successor of the one before, never the cursor record
\* itself, at most n of them, and fewer than n only when the chain ended (all
\* the records before the cursor when walking older); on a fresh cursor the
\* first record yielded is the seed, the most recent post.
C17_YieldOrderAndLimit ==
    run.outcome = "done"
        => /\ run.start.tail_id # None
                => /\ run.direction = run.reqdir
                   /\ \A i \in 1..Len(run.yielded) :
                         run.yielded[i] =
                             Successor(CursorOf(run.start, run.direction), i, run.direction)
                   /\ run.n # NoLimit => Len(run.yielded) <= run.n
                   /\ (run.n = NoLimit \/ Len(run.yielded) < run.n)
                         => IF run.yielded = <<>> THEN run.gets = 1
                            ELSE run.links[Len(run.links)] = None
                   /\ (run.direction = "older" /\ run.n = NoLimit)
                         => Len(run.yielded) = run.start.tail_id - 1
                   /\ (run.direction = "older" /\ run.n # NoLimit)
                         => Len(run.yielded) =
                              (IF run.n < run.start.tail_id - 1 THEN run.n
                               ELSE run.start.tail_id - 1)
           /\ (run.start.tail_id = None /\ run.yielded # <<>>)
                => (run.yielded[1] = run.seed /\ run.seed = run.recent)

\* a run for one newer record on an existing cursor stopped at its limit with a
\* further record left
C17_Witness ==
    /\ run.outcome = "done"
    /\ run.start.tail_id # None
    /\ run.direction = "newer"
    /\ run.n = 1
    /\ Len(run.yielded) = 1
    /\ run.links[1] # None

\* C18: the cursor advances only after the record's work is done: no state of a
\* subscription session holds a cursor, head_id or tail_id, that points at a
\* record whose normalization has not been committed.
C18_CursorOnlyAfterCommit ==
    it.subscribed
        => /\ it.head_id # None => it.head_id \in committed
           /\ it.tail_id # None => it.tail_id \in committed

\* C19: transfers are not redone after a crash: whatever crashes and restarts
\* from the durable state a subscription goes through, no original and no
\* thumbnail is transferred a second time once the commit of its record has
\* completed (a crash rolls back the count of the record in progress with its
\* presence flags, so only its assets can be transferred again).
C19_TransfersNotRedone ==
    \A i \in 1..Len(store.files) :
        store.files[i].orig_n <= 1 /\ store.files[i].thumb_n <= 1

\* after a crash a run starting from the durable state yielded again a record
\* committed before the crash, and its normalization transferred nothing
C19_Witness ==
    /\ aborts >= 1
    /\ it.subscribed
    /\ pc = "yield"
    /\ run.post_id \in run.prior
    /\ store.files = durable.store.files
    /\ \E i \in FilesOfPosts(store, last.posts) :
          store.files[i].orig_n = 1 /\ store.files[i].thumb_n = 1

\* the Related links of the store from post parent to post child
Links(parent, child) ==
    { i \in 1..Len(store.related) :
        store.related[i].related_to_id = parent /\ store.related[i].remote_id = child }

\* no pair of posts is linked twice, and after a normalization the collection
\* post has one link to each sub-content post it returned
OneLinkPerPair ==
    /\ \A i, j \in 1..Len(store.related) : store.related[i] = store.related[j] => i = j
    /\ (calls > 0 /\ last.remote_post = None /\ ~last.err)
          => \A k \in 2..Len(last.posts) :
                Cardinality(Links(last.posts[1], last.posts[k])) = 1

\* C20: exactly one Related link per parent/child pair: after any number of
\* normalizations the collection post has one link to each sub-content post
\* produced from a visible item, never two to the same child, and posts and
\* links are kept when the item later is not visible.
C20_OneRelatedLinkPerPair ==
    /\ []OneLinkPerPair
    /\ [][/\ Len(store'.posts) >= Len(store.posts)
          /\ \A i \in 1..Len(store.posts) :
                store'.posts[i].original_id = store.posts[i].original_id
          /\ Len(store'.related) >= Len(store.related)
          /\ \A i \in 1..Len(store.related) :
                store'.related[i] = store.related[i]]_vars

\* a record was normalized again after its visible item became hidden: only
\* the collection post is returned, the sub-content post and its link are kept
C20_Witness ==
    /\ calls = 2
    /\ last.remote_post = None
    /\ ~last.err
    /\ Len(last.post.post_contents) = 1
    /\ Len(last.posts) = 1
    /\ last.before = Len(store.posts)
    /\ \E rp \in 1..Len(store.posts) :
          /\ store.posts[rp].original_id =
                <<last.post.id, last.post.post_contents[1].id>>
          /\ Cardinality(Links(last.posts[1], rp)) = 1

\* the segment list a sequence of blog inserts is to be stored as
RECURSIVE Segments(_)
Segments(ops) ==
    IF ops = <<>> THEN <<>>
    ELSE (CASE Head(ops).kind = "text" -> <<[type |-> "text", content |-> Head(ops).v]>>
            [] Head(ops).kind = "image" -> <<[type |-> "file", order |-> Head(ops).v]>>
            [] OTHER -> <<>>)
         \o Segments(Tail(ops))

\* the sub-content posts of the store made from a blog item
BlogPosts ==
    { rp \in 1..Len(store.posts) :
        /\ Len(store.posts[rp].original_id) = 2
        /\ Payload(store.posts[rp].original_id[2]).category = "blog" }

\* C21: blog segments keep their order: the segment list stored for a blog item
\* has one text entry per literal-text insert and one file entry per image
\* insert, in input order, inserts of any other shape dropped; normalizing the
\* item again stores the same list.
C21_BlogSegmentsKeepOrder ==
    \A rp \in BlogPosts :
        /\ store.posts[rp].type = "blog"
        /\ store.posts[rp].comment = Segments(Payload(store.posts[rp].original_id[2]).ops)

\* a blog item with text, image, unknown and image inserts was normalized a
\* second time: its post was found and holds the three segments
C21_Witness ==
    /\ calls = 2
    /\ ~last.err
    /\ last.before = Len(store.posts)
    /\ \E k \in 2..Len(last.posts) :
          /\ last.posts[k] \in BlogPosts
          /\ Len(store.posts[last.posts[k]].comment) = 3
          /\ store.posts[last.posts[k]].comment[1].type = "text"
          /\ store.posts[last.posts[k]].comment[2].type = "file"

\* the largest and the smallest element of a non-empty set of record ids
Max(S) == CHOOSE x \in S : \A y \in S : y <= x
Min(S) == CHOOSE x \in S : \A y \in S : x <= y

\* C23: a subscription created from a search iterator continues where the
\* search stopped: whether or not the fetch of the iterator was consumed to the
\* end, the state stored by create_subscription(iterator=it) has the newest
\* record the iterator yielded as head_id and the oldest as tail_id, and no run
\* of the subscription yields one of those records again.
C23_SubscriptionContinuesSearch ==
    sub.origin = "iterator"
        => /\ (run = NoRun /\ sub.seen # {})
                 => /\ sub.state.head_id = Max(sub.seen)
                    /\ sub.state.tail_id = Min(sub.seen)
           /\ it.subscribed
                 => \A i \in 1..Len(run.yielded) : run.yielded[i] \notin sub.seen

\* a cursor with both ends absent or both ends present
Paired(c) == (c.head_id = None) <=> (c.tail_id = None)

\* C22: in every reachable state of a session, in the fields of the iterator,
\* in its state object and in the persisted state of the subscription,
\* head_id is absent if and only if tail_id is absent.
C22_HeadAbsentIffTailAbsent ==
    /\ Paired(it)
    /\ Paired(it.state)
    /\ Paired(sub.state)

\* a run of a subscription has moved one end of the cursor away from the other
\* and the end of fetch has persisted both
C22_Witness ==
    /\ it.subscribed
    /\ run.outcome = "done"
    /\ sub.state = [head_id |-> it.head_id, tail_id |-> it.tail_id]
    /\ sub.state.tail_id # None
    /\ sub.state.head_id > sub.state.tail_id

====
